---- MODULE Spec2Model ----
(***************************************************************************)
(* DiagnosticAI front end: the App component (src/unnamed/part_000) and    *)
(* the HTTP client it calls (src/frontend/src/services/api.js).            *)
(*                                                                         *)
(* Strings are sequences of one-character strings, so that trim(), length  *)
(* and concatenation are computed, not assumed.  A JavaScript object is a  *)
(* function from the keys it has to the kind of value stored under each    *)
(* key; a key outside the DOMAIN reads as undefined.                       *)
(***************************************************************************)
EXTENDS Integers, Sequences, FiniteSets, TLC

\* ------------------------------------------------------------------ bounds
\* Longest symptom text the user types (the widget allows up to 1000).
MaxLen == 2
\* Longest list of follow-up questions the backend returns in one reply.
MaxQuestions == 2

\* ------------------------------------------------------------- text values
Whitespace == {" ", "\n", "\t"}

Chars == {" ", "a"}

RECURSIVE TextsOfLen(_)
TextsOfLen(n) ==
  IF n = 0 THEN {<<>>}
  ELSE {Append(s, c) : s \in TextsOfLen(n - 1), c \in Chars}

\* What the user can put into the symptom textarea.
SymptomTexts == UNION {TextsOfLen(n) : n \in 0..MaxLen}

\* What the user can put into one answer textarea.
AnswerTexts == {<<>>, <<" ">>, <<" ", "a">>}

\* Question strings the backend can ask.
Questions == {<<"x", "?">>, <<"y", "?">>}

RECURSIVE ListsOfLen(_)
ListsOfLen(n) ==
  IF n = 0 THEN {<<>>}
  ELSE {Append(l, q) : l \in ListsOfLen(n - 1), q \in Questions}

QuestionLists == UNION {ListsOfLen(n) : n \in 0..MaxQuestions}

\* String.prototype.trim: strips whitespace from both ends.
RECURSIVE trimStart(_)
trimStart(s) ==
  IF s = <<>> THEN s
  ELSE IF Head(s) \in Whitespace THEN trimStart(Tail(s)) ELSE s

RECURSIVE trimEnd(_)
trimEnd(s) ==
  IF s = <<>> THEN s
  ELSE IF s[Len(s)] \in Whitespace THEN trimEnd(SubSeq(s, 1, Len(s) - 1)) ELSE s

\* Variant: the text is used as typed, never trimmed.
noTrim(s) == s

trim(s) == trimEnd(trimStart(s))

\* ---------------------------------------------------------- object values
\* The value under key k, by kind: "undefined" for a key the object lacks,
\* "null", "empty" ("" for a string key, [] for an array key) or "value" (a
\* non-empty string or array).
Get(obj, k) == IF k \in DOMAIN obj THEN obj[k] ELSE "undefined"

EmptyObject == <<>>

\* extracted_data keys in the order the result screens show them.
ExtractedFields ==
  << "parsed_symptoms", "body_parts_affected", "time_since_start",
     "evolution_of_symptoms", "medical_checks" >>

ArrayKeys ==
  { "parsed_symptoms", "body_parts_affected", "medical_checks",
    "possible_conditions", "symptom_explanations", "red_flags",
    "additional_questions" }

\* JavaScript truthiness of the value under key k: undefined, null and ""
\* are falsy, an array (even an empty one) is truthy.
Truthy(obj, k) ==
  LET v == Get(obj, k) IN
    CASE v = "undefined" -> FALSE
      [] v = "null" -> FALSE
      [] v = "empty" -> k \in ArrayKeys
      [] OTHER -> TRUE

\* `x && x.length > 0` for an array key.
NonEmptyArray(obj, k) == Get(obj, k) = "value"

\* extracted_data objects the backend can return: empty, every known key
\* filled (and a key the screens do not know), and one with falsy values.
ExtractedDataValues ==
  { EmptyObject,
    [k \in { "parsed_symptoms", "body_parts_affected", "time_since_start",
             "evolution_of_symptoms", "medical_checks", "severity" } |-> "value"],
    [k \in { "parsed_symptoms", "body_parts_affected", "time_since_start",
             "evolution_of_symptoms" } |->
       CASE k = "parsed_symptoms" -> "empty"
         [] k = "body_parts_affected" -> "null"
         [] k = "time_since_start" -> "empty"
         [] OTHER -> "value"] }

ResearchFields ==
  << "possible_conditions", "symptom_explanations", "red_flags",
     "search_summary", "confidence_level", "additional_questions" >>

\* web_research_results objects the backend can return.
ResearchValues ==
  { EmptyObject,
    [k \in { "possible_conditions", "symptom_explanations", "red_flags",
             "search_summary", "confidence_level", "additional_questions" }
       |-> "value"],
    [k \in { "possible_conditions", "search_summary" } |->
       IF k = "possible_conditions" THEN "empty" ELSE "value"] }

\* Replies of POST /api/analyze.
AnalyzeReplies ==
  [ is_complete : BOOLEAN,
    status : {"extracted", "needs_more_info"},
    extracted_data : ExtractedDataValues,
    follow_up_questions : QuestionLists ]

\* Replies of POST /api/web-research; web_research_results may be missing.
ResearchReplies ==
  [ extracted_data : ExtractedDataValues,
    has_web_research_results : BOOLEAN,
    web_research_results : ResearchValues ]

\* Ways an axios call fails: the server answered with an error status (with
\* or without a `detail` in the body), no response arrived (transport
\* failure or the timeout), or the request could not be set up.
NoDetail == "<undefined>"

AxiosErrors ==
  { [kind |-> "response", detail |-> d] :
      d \in {NoDetail, "", "Symptoms too short"} }
  \cup { [kind |-> "request", detail |-> NoDetail],
         [kind |-> "other", detail |-> NoDetail] }

\* `Date.now()` values at page load.
ThreadIds == {"thread_1", "thread_2"}

\* ------------------------------------------------------------------- state
VARIABLES
  symptoms,              \* useState('')
  charCount,             \* useState(0)
  isLoading,             \* useState(false)
  conversationComplete,  \* useState(false)
  followUpQuestions,     \* useState([])
  threadId,              \* useState(() => `thread_${Date.now()}`)
  questionAnswers,       \* useState({}): question index (from 0) -> answer
  extractedData,         \* useState({})
  showExtractedData,     \* useState(false)
  webResearchResults,    \* useState({})
  network,               \* requests awaiting their reply, with the handler waiting on each
  alerts,                \* alert() messages shown by the last step
  console,               \* console.log / console.error entries of the last step
  lastEvent,             \* the handler (or handler continuation) that ran last
  firstPosted            \* thread_id of the first request posted, "none" before it

componentState ==
  << symptoms, charCount, conversationComplete, followUpQuestions,
     questionAnswers, extractedData, showExtractedData, webResearchResults >>

vars ==
  << symptoms, charCount, isLoading, conversationComplete, followUpQuestions,
     threadId, questionAnswers, extractedData, showExtractedData,
     webResearchResults, network, alerts, console, lastEvent, firstPosted >>

\* The values a handler closes over when it is created by a render.
Closure ==
  [ symptoms |-> symptoms,
    charCount |-> charCount,
    conversationComplete |-> conversationComplete,
    followUpQuestions |-> followUpQuestions,
    questionAnswers |-> questionAnswers,
    extractedData |-> extractedData,
    showExtractedData |-> showExtractedData,
    webResearchResults |-> webResearchResults ]

Init ==
  /\ symptoms = <<>>
  /\ charCount = 0
  /\ isLoading = FALSE
  /\ conversationComplete = FALSE
  /\ followUpQuestions = <<>>
  /\ threadId \in ThreadIds
  /\ questionAnswers = EmptyObject
  /\ extractedData = EmptyObject
  /\ showExtractedData = FALSE
  /\ webResearchResults = EmptyObject
  /\ network = <<>>
  /\ alerts = <<>>
  /\ console = <<>>
  /\ lastEvent = "mount"
  /\ firstPosted = "none"

\* ------------------------------------------------------------ HTTP client
analyzeSymptoms(data) ==
  [ url |-> "/api/analyze",
    body |-> [symptoms |-> data.symptoms, thread_id |-> data.thread_id] ]

webResearch(data) ==
  [ url |-> "/api/web-research",
    body |-> [thread_id |-> data.thread_id] ]

\* api.post: the request leaves and the calling handler waits for it.
Post(handler, request) ==
  /\ network' = Append(network,
                  [ handler |-> handler, url |-> request.url,
                    body |-> request.body, closure |-> Closure ])
  /\ firstPosted' =
       IF firstPosted = "none" THEN request.body.thread_id ELSE firstPosted

Settle(i) ==
  network' = [j \in 1..(Len(network) - 1) |->
                IF j < i THEN network[j] ELSE network[j + 1]]

\* ------------------------------------------------------------------ render
\* Which of the three returns of App renders.
Screen ==
  IF conversationComplete THEN "Complete"
  ELSE IF showExtractedData THEN "Extracted"
  ELSE "Collecting"

\* The form of the third return: the symptom form or the follow-up form.
Form == IF Len(followUpQuestions) = 0 THEN "initial" ELSE "followup"

\* Variant: a row for every key the object has, whatever its value.
ResultItemsByPresence(ed) ==
  SelectSeq(ExtractedFields, LAMBDA k : k \in DOMAIN ed)

\* The result-item rows of extracted data, in display order.
ResultItems(ed) ==
  SelectSeq(ExtractedFields, LAMBDA k : Truthy(ed, k))

\* The rows of the research section; none unless the object has a key.
ResearchItems(wr) ==
  IF Cardinality(DOMAIN wr) > 0
  THEN SelectSeq(ResearchFields,
         LAMBDA k : IF k \in ArrayKeys THEN NonEmptyArray(wr, k)
                    ELSE Truthy(wr, k))
  ELSE <<>>

\* One labelled textarea per follow-up question: value={questionAnswers[index] || ''}.
FollowUpInputs ==
  [ i \in 1..Len(followUpQuestions) |->
      [ label |-> followUpQuestions[i],
        value |-> IF (i - 1) \in DOMAIN questionAnswers
                  THEN questionAnswers[i - 1] ELSE <<>> ] ]

\* Variant: the submit buttons are never disabled.
SubmitNeverDisabled == FALSE

\* disabled={isLoading} on the two form submit buttons.
SubmitDisabled == isLoading

\* disabled={isLoading} on the research button.
ResearchDisabled == isLoading

\* What the user sees and can act on.
Render ==
  CASE Screen = "Complete" ->
         [ screen |-> "Complete",
           items |-> ResultItems(extractedData),
           research |-> ResearchItems(webResearchResults),
           symptomInput |-> FALSE,
           inputs |-> <<>>,
           buttons |-> {"Start New Analysis"} ]
    [] Screen = "Extracted" ->
         [ screen |-> "Extracted",
           items |-> ResultItems(extractedData),
           research |-> <<>>,
           symptomInput |-> FALSE,
           inputs |-> <<>>,
           buttons |-> IF ResearchDisabled THEN {}
                       ELSE {"Start Medical Research"} ]
    [] OTHER ->
         [ screen |-> "Collecting",
           items |-> <<>>,
           research |-> <<>>,
           symptomInput |-> (Form = "initial"),
           inputs |-> IF Form = "initial" THEN <<>> ELSE FollowUpInputs,
           buttons |-> IF SubmitDisabled THEN {}
                       ELSE IF Form = "initial" THEN {"Analyze Symptoms"}
                       ELSE {"Submit Answers"} ]

\* ---------------------------------------------------------------- handlers
\* Which handler ran; no handler has a setter for threadId.
Ran(event) ==
  /\ lastEvent' = event
  /\ UNCHANGED threadId

\* Variant: the counter counts the trimmed text.
handleInputChangeTrimmedCount(value) ==
  /\ Render.symptomInput
  /\ symptoms' = value
  /\ charCount' = Len(trim(value))
  /\ alerts' = <<>>
  /\ console' = <<>>
  /\ Ran("handleInputChange")
  /\ UNCHANGED << isLoading, conversationComplete, followUpQuestions,
                  questionAnswers, extractedData, showExtractedData,
                  webResearchResults, network, firstPosted >>

\* handleInputChange: the symptom textarea changed to `value`.
handleInputChange(value) ==
  /\ Render.symptomInput
  /\ symptoms' = value
  /\ charCount' = Len(value)
  /\ alerts' = <<>>
  /\ console' = <<>>
  /\ Ran("handleInputChange")
  /\ UNCHANGED << isLoading, conversationComplete, followUpQuestions,
                  questionAnswers, extractedData, showExtractedData,
                  webResearchResults, network, firstPosted >>

\* handleQuestionAnswerChange: the textarea of question questionIndex changed.
handleQuestionAnswerChange(questionIndex, value) ==
  /\ (questionIndex + 1) \in DOMAIN Render.inputs
  /\ questionAnswers' =
       [k \in DOMAIN questionAnswers \cup {questionIndex} |->
          IF k = questionIndex THEN value ELSE questionAnswers[k]]
  /\ alerts' = <<>>
  /\ console' = <<>>
  /\ Ran("handleQuestionAnswerChange")
  /\ UNCHANGED << symptoms, charCount, isLoading, conversationComplete,
                  followUpQuestions, extractedData, showExtractedData,
                  webResearchResults, network, firstPosted >>

\* handleSubmit up to its await: validate, raise the busy flag, post.
handleSubmit ==
  /\ "Analyze Symptoms" \in Render.buttons
  /\ console' = <<>>
  /\ Ran("handleSubmit")
  /\ IF trim(symptoms) = <<>>
     THEN /\ alerts' = << <<"Please describe your symptoms.">> >>
          /\ UNCHANGED << isLoading, network, firstPosted >>
     ELSE /\ alerts' = <<>>
          /\ isLoading' = TRUE
          /\ Post("handleSubmit",
                  analyzeSymptoms([symptoms |-> symptoms, thread_id |-> threadId]))
  /\ UNCHANGED componentState

\* handleSubmit, reply branch `if (response.data.is_complete)`.
submitAnalysisComplete(data) ==
  /\ conversationComplete' = TRUE
  /\ followUpQuestions' = <<>>
  /\ extractedData' = data.extracted_data
  /\ showExtractedData' = FALSE
  /\ console' = << [tag |-> "Analysis result:", data |-> data],
                   [tag |-> "Complete analysis:", data |-> data.extracted_data] >>
  /\ UNCHANGED << symptoms, charCount, questionAnswers >>

\* Variant: the extracted branch forgets to raise showExtractedData.
submitDataExtractedHidden(data) ==
  /\ showExtractedData' = FALSE
  /\ extractedData' = data.extracted_data
  /\ followUpQuestions' = <<>>
  /\ console' = << [tag |-> "Analysis result:", data |-> data] >>
  /\ UNCHANGED << symptoms, charCount, questionAnswers, conversationComplete >>

\* handleSubmit, reply branch `else if (response.data.status === 'extracted')`.
submitDataExtracted(data) ==
  /\ showExtractedData' = TRUE
  /\ extractedData' = data.extracted_data
  /\ followUpQuestions' = <<>>
  /\ console' = << [tag |-> "Analysis result:", data |-> data] >>
  /\ UNCHANGED << symptoms, charCount, questionAnswers, conversationComplete >>

\* Variant: the follow-up branch leaves the typed text in place.
submitNeedMoreInformationKeepingText(data) ==
  /\ followUpQuestions' = data.follow_up_questions
  /\ questionAnswers' = EmptyObject
  /\ showExtractedData' = FALSE
  /\ console' = << [tag |-> "Analysis result:", data |-> data] >>
  /\ UNCHANGED << symptoms, charCount, conversationComplete, extractedData >>

\* handleSubmit, reply branch `else`: follow-up questions.
submitNeedMoreInformation(data) ==
  /\ followUpQuestions' = data.follow_up_questions
  /\ symptoms' = <<>>
  /\ charCount' = 0
  /\ questionAnswers' = EmptyObject
  /\ showExtractedData' = FALSE
  /\ console' = << [tag |-> "Analysis result:", data |-> data] >>
  /\ UNCHANGED << conversationComplete, extractedData >>

\* Variant: the status of the reply is tested before is_complete.
handleSubmitResolvedStatusFirst(i, data) ==
  /\ i \in DOMAIN network
  /\ network[i].handler = "handleSubmit"
  /\ Settle(i)
  /\ alerts' = <<>>
  /\ Ran("handleSubmit resolved")
  /\ IF data.status = "extracted" THEN submitDataExtracted(data)
     ELSE IF data.is_complete THEN submitAnalysisComplete(data)
     ELSE submitNeedMoreInformation(data)
  /\ isLoading' = FALSE
  /\ UNCHANGED << webResearchResults, firstPosted >>

\* handleSubmit after its await, the call having succeeded: the try block
\* from the first console.log on, then finally.
handleSubmitResolved(i, data) ==
  /\ i \in DOMAIN network
  /\ network[i].handler = "handleSubmit"
  /\ Settle(i)
  /\ alerts' = <<>>
  /\ Ran("handleSubmit resolved")
  /\ IF data.is_complete THEN submitAnalysisComplete(data)
     ELSE IF data.status = "extracted" THEN submitDataExtracted(data)
     ELSE submitNeedMoreInformation(data)
  /\ isLoading' = FALSE
  /\ UNCHANGED << webResearchResults, firstPosted >>

\* The alert of handleSubmit's catch block, by kind of failure.
analysisFailedMessage(error) ==
  IF error.kind = "response"
  THEN << "Analysis failed: ",
          IF error.detail \in {NoDetail, ""} THEN "Server error" ELSE error.detail >>
  ELSE IF error.kind = "request"
  THEN << "No response from server. Please check your connection." >>
  ELSE << "Analysis failed. Please try again." >>

\* Variant: the busy flag is cleared at the end of the try block only, so a
\* failed call leaves it raised.
handleSubmitRejectedStillBusy(i, error) ==
  /\ i \in DOMAIN network
  /\ network[i].handler = "handleSubmit"
  /\ Settle(i)
  /\ console' = << [tag |-> "Error analyzing symptoms:", data |-> error] >>
  /\ alerts' = << analysisFailedMessage(error) >>
  /\ Ran("handleSubmit rejected")
  /\ UNCHANGED componentState
  /\ UNCHANGED << isLoading, firstPosted >>

\* Variant: the catch block also clears the typed text.
handleSubmitRejectedClearing(i, error) ==
  /\ i \in DOMAIN network
  /\ network[i].handler = "handleSubmit"
  /\ Settle(i)
  /\ console' = << [tag |-> "Error analyzing symptoms:", data |-> error] >>
  /\ alerts' = << analysisFailedMessage(error) >>
  /\ isLoading' = FALSE
  /\ Ran("handleSubmit rejected")
  /\ symptoms' = <<>>
  /\ charCount' = 0
  /\ UNCHANGED << conversationComplete, followUpQuestions, questionAnswers,
                  extractedData, showExtractedData, webResearchResults >>
  /\ UNCHANGED firstPosted

\* handleSubmit after its await, the call having failed: catch, then finally.
handleSubmitRejected(i, error) ==
  /\ i \in DOMAIN network
  /\ network[i].handler = "handleSubmit"
  /\ Settle(i)
  /\ console' = << [tag |-> "Error analyzing symptoms:", data |-> error] >>
  /\ alerts' = << analysisFailedMessage(error) >>
  /\ isLoading' = FALSE
  /\ Ran("handleSubmit rejected")
  /\ UNCHANGED componentState
  /\ UNCHANGED firstPosted

\* Variant: only a missing or empty answer counts as unanswered.
unansweredQuestionsUntrimmed ==
  { index \in 0..(Len(followUpQuestions) - 1) :
      \/ index \notin DOMAIN questionAnswers
      \/ questionAnswers[index] = <<>> }

\* followUpQuestions.filter(...): the questions without a usable answer.
unansweredQuestions ==
  { index \in 0..(Len(followUpQuestions) - 1) :
      \/ index \notin DOMAIN questionAnswers
      \/ questionAnswers[index] = <<>>
      \/ trim(questionAnswers[index]) = <<>> }

RECURSIVE join(_, _)
join(parts, separator) ==
  IF Len(parts) = 0 THEN <<>>
  ELSE IF Len(parts) = 1 THEN parts[1]
  ELSE parts[1] \o separator \o join(Tail(parts), separator)

\* Variant: the pairs are joined by a single newline.
combinedAnswersSingleNewline ==
  join([ i \in 1..Len(followUpQuestions) |->
           <<"Q", ":", " ">> \o followUpQuestions[i]
             \o <<"\n", "A", ":", " ">> \o questionAnswers[i - 1] ],
       <<"\n">>)

\* followUpQuestions.map(...).join('\n\n')
combinedAnswers ==
  join([ i \in 1..Len(followUpQuestions) |->
           <<"Q", ":", " ">> \o followUpQuestions[i]
             \o <<"\n", "A", ":", " ">> \o questionAnswers[i - 1] ],
       <<"\n", "\n">>)

\* handleFollowUpSubmit up to its await.
handleFollowUpSubmit ==
  /\ "Submit Answers" \in Render.buttons
  /\ console' = <<>>
  /\ Ran("handleFollowUpSubmit")
  /\ IF Cardinality(unansweredQuestions) > 0
     THEN /\ alerts' = << <<"Please answer all questions before submitting.">> >>
          /\ UNCHANGED << isLoading, network, firstPosted >>
     ELSE /\ alerts' = <<>>
          /\ isLoading' = TRUE
          /\ Post("handleFollowUpSubmit",
                  analyzeSymptoms([symptoms |-> combinedAnswers, thread_id |-> threadId]))
  /\ UNCHANGED componentState

\* handleFollowUpSubmit, reply branch `if (response.data.is_complete)`.
followUpAnalysisComplete(data) ==
  /\ conversationComplete' = TRUE
  /\ followUpQuestions' = <<>>
  /\ extractedData' = data.extracted_data
  /\ showExtractedData' = FALSE
  /\ console' = << [tag |-> "Follow-up analysis result:", data |-> data],
                   [tag |-> "Complete analysis:", data |-> data.extracted_data] >>
  /\ UNCHANGED questionAnswers

\* Variant: the extracted branch of the follow-up handler leaves the
\* answered questions in place.
followUpDataExtractedKeepingQuestions(data) ==
  /\ showExtractedData' = TRUE
  /\ extractedData' = data.extracted_data
  /\ console' = << [tag |-> "Follow-up analysis result:", data |-> data] >>
  /\ UNCHANGED << questionAnswers, conversationComplete, followUpQuestions >>

\* handleFollowUpSubmit, reply branch `else if (response.data.status === 'extracted')`.
followUpDataExtracted(data) ==
  /\ showExtractedData' = TRUE
  /\ extractedData' = data.extracted_data
  /\ followUpQuestions' = <<>>
  /\ console' = << [tag |-> "Follow-up analysis result:", data |-> data] >>
  /\ UNCHANGED << questionAnswers, conversationComplete >>

\* Variant: the answers of the round before are kept for the new questions.
followUpNeedMoreInformationKeepingAnswers(data) ==
  /\ followUpQuestions' = data.follow_up_questions
  /\ showExtractedData' = FALSE
  /\ console' = << [tag |-> "Follow-up analysis result:", data |-> data] >>
  /\ UNCHANGED << conversationComplete, extractedData, questionAnswers >>

\* handleFollowUpSubmit, reply branch `else`: another round of questions.
followUpNeedMoreInformation(data) ==
  /\ followUpQuestions' = data.follow_up_questions
  /\ questionAnswers' = EmptyObject
  /\ showExtractedData' = FALSE
  /\ console' = << [tag |-> "Follow-up analysis result:", data |-> data] >>
  /\ UNCHANGED << conversationComplete, extractedData >>

\* handleFollowUpSubmit after its await, the call having succeeded.
handleFollowUpSubmitResolved(i, data) ==
  /\ i \in DOMAIN network
  /\ network[i].handler = "handleFollowUpSubmit"
  /\ Settle(i)
  /\ alerts' = <<>>
  /\ Ran("handleFollowUpSubmit resolved")
  /\ IF data.is_complete THEN followUpAnalysisComplete(data)
     ELSE IF data.status = "extracted" THEN followUpDataExtracted(data)
     ELSE followUpNeedMoreInformation(data)
  /\ isLoading' = FALSE
  /\ UNCHANGED << symptoms, charCount, webResearchResults, firstPosted >>

\* handleFollowUpSubmit after its await, the call having failed.
handleFollowUpSubmitRejected(i, error) ==
  /\ i \in DOMAIN network
  /\ network[i].handler = "handleFollowUpSubmit"
  /\ Settle(i)
  /\ console' = << [tag |-> "Error submitting follow-up:", data |-> error] >>
  /\ alerts' = << <<"Failed to submit answers. Please try again.">> >>
  /\ isLoading' = FALSE
  /\ Ran("handleFollowUpSubmit rejected")
  /\ UNCHANGED componentState
  /\ UNCHANGED firstPosted

\* handleWebResearch up to its await.
handleWebResearch ==
  /\ "Start Medical Research" \in Render.buttons
  /\ isLoading' = TRUE
  /\ Post("handleWebResearch", webResearch([thread_id |-> threadId]))
  /\ alerts' = <<>>
  /\ console' = <<>>
  /\ Ran("handleWebResearch")
  /\ UNCHANGED componentState

\* Variant: the research results of the reply are not stored.
handleWebResearchResolvedDroppingResults(i, data) ==
  /\ i \in DOMAIN network
  /\ network[i].handler = "handleWebResearch"
  /\ Settle(i)
  /\ console' = << [tag |-> "Web research result:", data |-> data] >>
  /\ conversationComplete' = TRUE
  /\ showExtractedData' = FALSE
  /\ extractedData' = data.extracted_data
  /\ isLoading' = FALSE
  /\ alerts' = <<>>
  /\ Ran("handleWebResearch resolved")
  /\ UNCHANGED << symptoms, charCount, followUpQuestions, questionAnswers,
                  webResearchResults, firstPosted >>

\* Variant: showExtractedData is left raised when the research completes.
handleWebResearchResolvedStillShowing(i, data) ==
  /\ i \in DOMAIN network
  /\ network[i].handler = "handleWebResearch"
  /\ Settle(i)
  /\ console' = << [tag |-> "Web research result:", data |-> data] >>
  /\ conversationComplete' = TRUE
  /\ extractedData' = data.extracted_data
  /\ webResearchResults' =
       IF data.has_web_research_results
       THEN data.web_research_results ELSE EmptyObject
  /\ isLoading' = FALSE
  /\ alerts' = <<>>
  /\ Ran("handleWebResearch resolved")
  /\ UNCHANGED << symptoms, charCount, followUpQuestions, questionAnswers,
                  showExtractedData, firstPosted >>

\* handleWebResearch after its await, the call having succeeded.
handleWebResearchResolved(i, data) ==
  /\ i \in DOMAIN network
  /\ network[i].handler = "handleWebResearch"
  /\ Settle(i)
  /\ console' = << [tag |-> "Web research result:", data |-> data] >>
  /\ conversationComplete' = TRUE
  /\ showExtractedData' = FALSE
  /\ extractedData' = data.extracted_data
  /\ webResearchResults' =
       IF data.has_web_research_results
       THEN data.web_research_results ELSE EmptyObject
  /\ isLoading' = FALSE
  /\ alerts' = <<>>
  /\ Ran("handleWebResearch resolved")
  /\ UNCHANGED << symptoms, charCount, followUpQuestions, questionAnswers, firstPosted >>

\* handleWebResearch after its await, the call having failed.
handleWebResearchRejected(i, error) ==
  /\ i \in DOMAIN network
  /\ network[i].handler = "handleWebResearch"
  /\ Settle(i)
  /\ console' = << [tag |-> "Error during web research:", data |-> error] >>
  /\ alerts' = << <<"Web research failed. Please try again.">> >>
  /\ isLoading' = FALSE
  /\ Ran("handleWebResearch rejected")
  /\ UNCHANGED componentState
  /\ UNCHANGED firstPosted

\* Variant: a reset mints a new thread identifier.
resetConversationNewThread ==
  /\ "Start New Analysis" \in Render.buttons
  /\ symptoms' = <<>>
  /\ charCount' = 0
  /\ conversationComplete' = FALSE
  /\ followUpQuestions' = <<>>
  /\ questionAnswers' = EmptyObject
  /\ extractedData' = EmptyObject
  /\ showExtractedData' = FALSE
  /\ webResearchResults' = EmptyObject
  /\ alerts' = <<>>
  /\ console' = <<>>
  /\ lastEvent' = "resetConversation"
  /\ threadId' \in ThreadIds \ {threadId}
  /\ UNCHANGED << isLoading, network, firstPosted >>

\* Variant: a reset leaves the research results in place.
resetConversationKeepingResearch ==
  /\ "Start New Analysis" \in Render.buttons
  /\ symptoms' = <<>>
  /\ charCount' = 0
  /\ conversationComplete' = FALSE
  /\ followUpQuestions' = <<>>
  /\ questionAnswers' = EmptyObject
  /\ extractedData' = EmptyObject
  /\ showExtractedData' = FALSE
  /\ alerts' = <<>>
  /\ console' = <<>>
  /\ Ran("resetConversation")
  /\ UNCHANGED << isLoading, network, firstPosted, webResearchResults >>

\* resetConversation: the "Start New Analysis" button.
resetConversation ==
  /\ "Start New Analysis" \in Render.buttons
  /\ symptoms' = <<>>
  /\ charCount' = 0
  /\ conversationComplete' = FALSE
  /\ followUpQuestions' = <<>>
  /\ questionAnswers' = EmptyObject
  /\ extractedData' = EmptyObject
  /\ showExtractedData' = FALSE
  /\ webResearchResults' = EmptyObject
  /\ alerts' = <<>>
  /\ console' = <<>>
  /\ Ran("resetConversation")
  /\ UNCHANGED << isLoading, network, firstPosted >>

Next ==
  \/ \E value \in SymptomTexts : handleInputChange(value)
  \/ \E questionIndex \in 0..MaxQuestions, value \in AnswerTexts :
       handleQuestionAnswerChange(questionIndex, value)
  \/ handleSubmit
  \/ \E i \in DOMAIN network, data \in AnalyzeReplies : handleSubmitResolved(i, data)
  \/ \E i \in DOMAIN network, error \in AxiosErrors : handleSubmitRejected(i, error)
  \/ handleFollowUpSubmit
  \/ \E i \in DOMAIN network, data \in AnalyzeReplies :
       handleFollowUpSubmitResolved(i, data)
  \/ \E i \in DOMAIN network, error \in AxiosErrors :
       handleFollowUpSubmitRejected(i, error)
  \/ handleWebResearch
  \/ \E i \in DOMAIN network, data \in ResearchReplies :
       handleWebResearchResolved(i, data)
  \/ \E i \in DOMAIN network, error \in AxiosErrors :
       handleWebResearchRejected(i, error)
  \/ resetConversation

Spec == Init /\ [][Next]_vars

\* A pending api.post settles: its handler resumes after the await, with the
\* reply or with the error.
RequestSettles ==
  \E i \in DOMAIN network :
    \/ \E data \in AnalyzeReplies :
         handleSubmitResolved(i, data) \/ handleFollowUpSubmitResolved(i, data)
    \/ \E data \in ResearchReplies : handleWebResearchResolved(i, data)
    \/ \E error \in AxiosErrors :
         \/ handleSubmitRejected(i, error)
         \/ handleFollowUpSubmitRejected(i, error)
         \/ handleWebResearchRejected(i, error)

\* The client's timeout (300000 ms) fails a call that got no answer, so no
\* request stays pending for ever.
FairSpec == Spec /\ WF_vars(RequestSettles)

\* ================================================================= claims
RejectedEvents ==
  { "handleSubmit rejected", "handleFollowUpSubmit rejected",
    "handleWebResearch rejected" }

AnalyzeResolvedEvents ==
  { "handleSubmit resolved", "handleFollowUpSubmit resolved" }

\* The reply the last step handled (its first console.log prints it).
LastReply == console[1].data

\* A text with nothing but whitespace in it (the empty text included).
IsBlank(s) == \A j \in DOMAIN s : s[j] \in Whitespace

\* Question index (from 0) has an answer with a non-whitespace character.
Answered(index) ==
  /\ index \in DOMAIN questionAnswers
  /\ ~IsBlank(questionAnswers[index])

\* The fields that decide the stage and what the result screens show.
StageOf(c) ==
  << c.conversationComplete, c.showExtractedData, c.followUpQuestions,
     c.extractedData, c.webResearchResults >>

\* The keys of a backend object whose value is truthy in JavaScript.
StringKeys == {"time_since_start", "evolution_of_symptoms", "search_summary",
               "confidence_level"}

KeysWithTruthyValue(obj) ==
  { k \in DOMAIN obj :
      /\ obj[k] # "null"
      /\ ~(obj[k] = "empty" /\ k \in StringKeys) }

\* The five extracted_data keys the result screens have a row for.
KnownFields ==
  { "parsed_symptoms", "body_parts_affected", "time_since_start",
    "evolution_of_symptoms", "medical_checks" }

Range(seq) == {seq[j] : j \in DOMAIN seq}

\* C1: at most one HTTP request is outstanding in every reachable state: no
\* user action starts a second request before the first has resolved.
C1_AtMostOneRequest == Len(network) <= 1

\* C1 witness: a request is outstanding and the user has just acted on the page.
C1_Witness ==
  /\ Len(network) = 1
  /\ isLoading
  /\ lastEvent = "handleQuestionAnswerChange"
  /\ Render.buttons = {}

\* C2: every request carries the thread identifier of the first request of
\* the page session, and no step changes the identifier.
C2_SameThreadId ==
  [][ /\ threadId' = threadId
      /\ \A j \in DOMAIN network' : network'[j].body.thread_id = firstPosted'
      /\ firstPosted # "none" => firstPosted' = firstPosted ]_vars

\* C2 witness: a research call that follows earlier analyze calls is in flight,
\* carrying the identifier of the first call.
C2_Witness ==
  /\ Len(network) = 1
  /\ network[1].handler = "handleWebResearch"
  /\ network[1].body.thread_id = firstPosted

\* C3 as stated: after a failed request the controller state equals the state
\* in which the request was started, and no request is issued.
C3_StateAsAtRequestStart ==
  [][ lastEvent' \in RejectedEvents =>
        /\ Len(network') < Len(network)
        /\ Closure' = network[1].closure ]_vars

\* C3 as amended: handling a failure issues no request and changes nothing
\* but the busy flag, which it clears; stage, questions, extracted data and
\* research results are those of the state the request was started in (the
\* symptom text and the answers are whatever the user typed last), and a
\* failed research call leaves the Extracted screen showing.
C3_FailureChangesOnlyBusyFlag ==
  [][ lastEvent' \in RejectedEvents =>
        \E j \in DOMAIN network :
          /\ Len(network') = Len(network) - 1
          /\ firstPosted' = firstPosted
          /\ componentState' = componentState
          /\ ~isLoading'
          /\ StageOf(Closure') = StageOf(network[j].closure)
          /\ (lastEvent' = "handleWebResearch rejected" => Screen' = "Extracted") ]_vars

\* C3 witness: a follow-up request has failed and the round with its answers
\* is still on the page.
C3_Witness ==
  /\ lastEvent = "handleFollowUpSubmit rejected"
  /\ Len(followUpQuestions) = 2
  /\ Answered(0)
  /\ network = <<>>

\* C4: a submit of the initial form with empty or whitespace-only symptom text
\* issues no request and changes neither the busy flag nor any other field.
C4_BlankSubmitSendsNothing ==
  [][ (lastEvent' = "handleSubmit" /\ IsBlank(symptoms)) =>
        /\ network' = network
        /\ isLoading' = isLoading
        /\ componentState' = componentState
        /\ threadId' = threadId
        /\ firstPosted' = firstPosted ]_vars

\* C4 witness: the submit handler has run on a whitespace-only text.
C4_Witness ==
  /\ lastEvent = "handleSubmit"
  /\ symptoms = <<" ", " ">>
  /\ alerts # <<>>
  /\ network = <<>>

\* C5: a follow-up submit issues no request unless every question of the
\* round has an answer that is non-empty after trimming; a rejected submit
\* changes neither the questions, the answers nor the busy flag.
C5_UnansweredRoundSendsNothing ==
  [][ ( /\ lastEvent' = "handleFollowUpSubmit"
        /\ \E index \in 0..(Len(followUpQuestions) - 1) : ~Answered(index) ) =>
        /\ network' = network
        /\ isLoading' = isLoading
        /\ followUpQuestions' = followUpQuestions
        /\ questionAnswers' = questionAnswers
        /\ firstPosted' = firstPosted ]_vars

\* C5 witness: the follow-up handler has run on a round of two questions, one
\* answered and one answered with whitespace only.
C5_Witness ==
  /\ lastEvent = "handleFollowUpSubmit"
  /\ Len(followUpQuestions) = 2
  /\ Answered(0)
  /\ 1 \in DOMAIN questionAnswers
  /\ questionAnswers[1] = <<" ">>
  /\ alerts # <<>>

\* C6 as stated: after a reply with is_complete the Complete screen shows
\* exactly the fields present in the reply's extracted_data.
C6_ShowsFieldsPresent ==
  (lastEvent \in AnalyzeResolvedEvents /\ LastReply.is_complete) =>
    /\ Render.screen = "Complete"
    /\ Range(Render.items) = DOMAIN LastReply.extracted_data

\* C6 as amended: after a reply with is_complete the Complete screen shows
\* exactly those of the five known fields whose value in the reply's
\* extracted_data is truthy (not null, not the empty string), in the
\* screen's fixed order.
C6_ShowsFieldsWithTruthyValue ==
  (lastEvent \in AnalyzeResolvedEvents /\ LastReply.is_complete) =>
    /\ Render.screen = "Complete"
    /\ Range(Render.items) = KeysWithTruthyValue(LastReply.extracted_data) \cap KnownFields
    /\ Render.items = SelectSeq(ExtractedFields, LAMBDA k : k \in Range(Render.items))

\* C6 witness: a follow-up reply with is_complete whose data has a null and an
\* empty-string field has been handled.
C6_Witness ==
  /\ lastEvent = "handleFollowUpSubmit resolved"
  /\ LastReply.is_complete
  /\ Get(LastReply.extracted_data, "time_since_start") = "empty"
  /\ Render.items = <<"parsed_symptoms", "evolution_of_symptoms">>

\* C7 as stated: after a reply with status "extracted" the Extracted screen
\* shows and the research button is available.
C7_ExtractedStatusShowsExtracted ==
  (lastEvent \in AnalyzeResolvedEvents /\ LastReply.status = "extracted") =>
    /\ Render.screen = "Extracted"
    /\ Render.buttons = {"Start Medical Research"}

\* C7 as amended: after a reply with status "extracted" and is_complete not
\* set, the Extracted screen shows and the research button is available.
C7_ExtractedNotCompleteShowsExtracted ==
  ( /\ lastEvent \in AnalyzeResolvedEvents
    /\ LastReply.status = "extracted"
    /\ ~LastReply.is_complete ) =>
    /\ Render.screen = "Extracted"
    /\ Render.buttons = {"Start Medical Research"}
    /\ ~isLoading

\* C7 witness: the initial submit was answered with status "extracted".
C7_Witness ==
  /\ lastEvent = "handleSubmit resolved"
  /\ LastReply.status = "extracted"
  /\ ~LastReply.is_complete
  /\ showExtractedData

\* C8: after a reply with neither is_complete nor status "extracted" the
\* Collecting screen shows one answer input per returned question, in the
\* returned order, and the symptom text is empty with character count 0.
C8_FollowUpQuestionsShown ==
  ( /\ lastEvent \in AnalyzeResolvedEvents
    /\ ~LastReply.is_complete
    /\ LastReply.status # "extracted" ) =>
    /\ Render.screen = "Collecting"
    /\ Len(Render.inputs) = Len(LastReply.follow_up_questions)
    /\ \A j \in DOMAIN Render.inputs :
         Render.inputs[j].label = LastReply.follow_up_questions[j]
    /\ symptoms = <<>>
    /\ charCount = 0

\* C8 witness: a follow-up round was answered with two further questions.
C8_Witness ==
  /\ lastEvent = "handleFollowUpSubmit resolved"
  /\ ~LastReply.is_complete
  /\ LastReply.status # "extracted"
  /\ LastReply.follow_up_questions = << <<"y", "?">>, <<"x", "?">> >>
  /\ Len(Render.inputs) = 2

\* C9: a research request is posted from the Extracted screen with the thread
\* identifier only; when it succeeds the returned research results are stored
\* and the Complete screen shows the extracted data and the research results.
C9_ResearchCompletes ==
  /\ \A j \in DOMAIN network :
       network[j].handler = "handleWebResearch" =>
         /\ network[j].url = "/api/web-research"
         /\ DOMAIN network[j].body = {"thread_id"}
         /\ network[j].closure.showExtractedData
         /\ ~network[j].closure.conversationComplete
  /\ lastEvent = "handleWebResearch resolved" =>
       /\ Render.screen = "Complete"
       /\ webResearchResults =
            (IF LastReply.has_web_research_results
             THEN LastReply.web_research_results ELSE EmptyObject)
       /\ extractedData = LastReply.extracted_data
       /\ Range(Render.items) = KeysWithTruthyValue(extractedData) \cap KnownFields
       /\ Range(Render.research) =
            { k \in KeysWithTruthyValue(webResearchResults) :
                webResearchResults[k] = "value" }

\* C9 witness: a research reply with results has been handled.
C9_Witness ==
  /\ lastEvent = "handleWebResearch resolved"
  /\ LastReply.has_web_research_results
  /\ Len(Render.research) = 6
  /\ Len(Render.items) = 5

\* C10: after a reset (offered on the Complete screen only) the symptom text,
\* questions, answers, extracted data and research results are empty, the
\* character count is 0 and the initial symptom form shows.
C10_ResetClearsEverything ==
  lastEvent = "resetConversation" =>
    /\ symptoms = <<>>
    /\ charCount = 0
    /\ followUpQuestions = <<>>
    /\ DOMAIN questionAnswers = {}
    /\ DOMAIN extractedData = {}
    /\ DOMAIN webResearchResults = {}
    /\ Render.screen = "Collecting"
    /\ Render.symptomInput
    /\ Render.inputs = <<>>
    /\ Render.buttons = {"Analyze Symptoms"}

\* C10 witness: a reset has run after a conversation took place.
C10_Witness ==
  /\ lastEvent = "resetConversation"
  /\ firstPosted # "none"
  /\ ~conversationComplete

\* The steps in which a pending call settles.
ResolvedEvents ==
  AnalyzeResolvedEvents \cup {"handleWebResearch resolved"}

\* The button whose click started the call that the last step saw fail.
TriggeringControl ==
  CASE lastEvent = "handleSubmit rejected" -> "Analyze Symptoms"
    [] lastEvent = "handleFollowUpSubmit rejected" -> "Submit Answers"
    [] lastEvent = "handleWebResearch rejected" -> "Start Medical Research"
    [] OTHER -> "none"

\* C11: a raised busy flag is always cleared later on; when a call settles, by
\* a reply or by any kind of failure, the busy flag is down and a control is
\* enabled, and after a failure it is the control that started the call.
C11_BusyFlagCleared ==
  /\ [](isLoading => <>(~isLoading))
  /\ []( lastEvent \in ResolvedEvents \cup RejectedEvents =>
           /\ ~isLoading
           /\ Render.buttons # {} )
  /\ []( lastEvent \in RejectedEvents => TriggeringControl \in Render.buttons )

\* C11 witness: an analyze call got no response (transport failure or the
\* timeout) and the submit button is enabled again.
C11_Witness ==
  /\ lastEvent = "handleSubmit rejected"
  /\ console[1].data.kind = "request"
  /\ ~isLoading
  /\ Render.buttons = {"Analyze Symptoms"}

\* The error the last step caught (console.error prints it).
LastError == console[1].data

\* C12: after any failed request the alert is classified by kind of failure:
\* the detail of the server's error response when it has one, else a generic
\* server-error message; a connectivity message when no response arrived; a
\* generic retry message otherwise.
C12_ErrorClassifiedByKind ==
  lastEvent \in RejectedEvents =>
    /\ Len(alerts) = 1
    /\ CASE LastError.kind = "response" /\ LastError.detail \notin {NoDetail, ""} ->
              LastError.detail \in Range(alerts[1])
         [] LastError.kind = "response" ->
              "Server error" \in Range(alerts[1])
         [] LastError.kind = "request" ->
              alerts[1] = <<"No response from server. Please check your connection.">>
         [] OTHER ->
              alerts[1] \in { <<"Analysis failed. Please try again.">>,
                              <<"Failed to submit answers. Please try again.">>,
                              <<"Web research failed. Please try again.">> }

\* C13: the stored character count is the length of the symptom text in
\* every reachable state.
C13_CharCountIsLength == charCount = Len(symptoms)

\* C13 witness: the user has typed a two-character text with a trailing blank
\* while a request was pending.
C13_Witness ==
  /\ lastEvent = "handleInputChange"
  /\ symptoms = <<"a", " ">>
  /\ charCount = 2
  /\ isLoading

\* The text the claim describes for the first n questions of a round: the
\* block of each question in turn, a blank line before every block but the first.
RECURSIVE QABlocks(_, _, _)
QABlocks(questions, answers, n) ==
  IF n = 0 THEN <<>>
  ELSE (IF n = 1 THEN <<>>
        ELSE QABlocks(questions, answers, n - 1) \o <<"\n", "\n">>)
       \o <<"Q", ":", " ">> \o questions[n]
       \o <<"\n", "A", ":", " ">> \o answers[n - 1]

\* C14: the symptoms field of a follow-up request is the blocks
\* "Q: <question>\nA: <answer>" of the round's questions, in question order,
\* joined by a blank line, with the answers as they stood at the submit.
C14_CombinedAnswersFormat ==
  \A j \in DOMAIN network :
    network[j].handler = "handleFollowUpSubmit" =>
      /\ network[j].url = "/api/analyze"
      /\ network[j].body.symptoms =
           QABlocks(network[j].closure.followUpQuestions,
                    network[j].closure.questionAnswers,
                    Len(network[j].closure.followUpQuestions))

\* C14 witness: a round of two questions has been submitted.
C14_Witness ==
  /\ Len(network) = 1
  /\ network[1].handler = "handleFollowUpSubmit"
  /\ network[1].closure.followUpQuestions = << <<"y", "?">>, <<"x", "?">> >>
  /\ network[1].body.symptoms =
       << "Q", ":", " ", "y", "?", "\n", "A", ":", " ", " ", "a", "\n", "\n",
          "Q", ":", " ", "x", "?", "\n", "A", ":", " ", " ", "a" >>

\* C15: the Complete screen offers the reset button and nothing else, and
\* the only step that can be taken from it is a reset: no request is posted
\* or pending, and the stage does not change otherwise.
C15_CompleteIsTerminal ==
  /\ []( Screen = "Complete" =>
           /\ Render.buttons = {"Start New Analysis"}
           /\ ~Render.symptomInput
           /\ Render.inputs = <<>>
           /\ network = <<>> )
  /\ [][ Screen = "Complete" =>
           /\ lastEvent' = "resetConversation"
           /\ network' = network
           /\ firstPosted' = firstPosted ]_vars

\* C15 witness: the Complete screen shows after a research call, with only the
\* reset button on it.
C15_Witness ==
  /\ Screen = "Complete"
  /\ lastEvent = "handleWebResearch resolved"
  /\ Render.buttons = {"Start New Analysis"}
  /\ network = <<>>

\* The fields the claim compares, as a record.
Outcome ==
  [ conversationComplete |-> conversationComplete,
    showExtractedData |-> showExtractedData,
    followUpQuestions |-> followUpQuestions,
    questionAnswers |-> questionAnswers,
    symptoms |-> symptoms,
    charCount |-> charCount,
    extractedData |-> extractedData ]

\* What the initial handler makes of reply `data` in the current state.
InitialReplyOutcome(data) ==
  IF data.is_complete
  THEN [ Outcome EXCEPT !.conversationComplete = TRUE,
                        !.showExtractedData = FALSE,
                        !.followUpQuestions = <<>>,
                        !.extractedData = data.extracted_data ]
  ELSE IF data.status = "extracted"
  THEN [ Outcome EXCEPT !.showExtractedData = TRUE,
                        !.followUpQuestions = <<>>,
                        !.extractedData = data.extracted_data ]
  ELSE [ Outcome EXCEPT !.showExtractedData = FALSE,
                        !.followUpQuestions = data.follow_up_questions,
                        !.questionAnswers = EmptyObject,
                        !.symptoms = <<>>,
                        !.charCount = 0 ]

\* C16: every reply handled by either submit handler leaves stage, questions,
\* answers, symptom text, character count and extracted data as the initial
\* handler's three branches make them from the state before; in particular
\* the follow-up handler's result is the one the initial handler would give.
C16_SameReplyHandling ==
  [][ lastEvent' \in AnalyzeResolvedEvents =>
        Outcome' = InitialReplyOutcome(console'[1].data) ]_vars

\* C16 witness: a second round of questions has been installed by the
\* follow-up handler.
C16_Witness ==
  /\ lastEvent = "handleFollowUpSubmit resolved"
  /\ ~LastReply.is_complete
  /\ LastReply.status = "needs_more_info"
  /\ followUpQuestions = << <<"x", "?">> >>
  /\ symptoms = <<>>

\* C17: after a reply with both is_complete and status "extracted" the
\* Complete screen shows, not the Extracted one, and no research button is
\* offered.
C17_CompleteTakesPrecedence ==
  ( /\ lastEvent \in AnalyzeResolvedEvents
    /\ LastReply.is_complete
    /\ LastReply.status = "extracted" ) =>
    /\ Screen = "Complete"
    /\ conversationComplete
    /\ ~showExtractedData
    /\ "Start Medical Research" \notin Render.buttons

\* C17 witness: the initial submit was answered with both flags set.
C17_Witness ==
  /\ lastEvent = "handleSubmit resolved"
  /\ LastReply.is_complete
  /\ LastReply.status = "extracted"
  /\ Render.screen = "Complete"

\* C18: a reply that installs a list of follow-up questions leaves no answer
\* behind, and answers only ever change by the user typing one or by all of
\* them being dropped: an answer of an earlier round is never counted for, or
\* sent with, a question of a later round.
C18_NewRoundHasNoAnswers ==
  /\ []( ( /\ lastEvent \in AnalyzeResolvedEvents
           /\ ~LastReply.is_complete
           /\ LastReply.status # "extracted" ) =>
           /\ DOMAIN questionAnswers = {}
           /\ \A j \in DOMAIN Render.inputs : Render.inputs[j].value = <<>> )
  /\ [][ questionAnswers' # questionAnswers =>
           \/ lastEvent' = "handleQuestionAnswerChange"
           \/ DOMAIN questionAnswers' = {} ]_vars

\* C18 witness: a round whose answers were sent has been followed by a round
\* of two questions, whose inputs are empty.
C18_Witness ==
  /\ lastEvent = "handleFollowUpSubmit resolved"
  /\ Len(followUpQuestions) = 2
  /\ Len(Render.inputs) = 2
  /\ DOMAIN questionAnswers = {}

\* C19: conversationComplete and showExtractedData are never both true.
C19_NotCompleteAndExtracted == ~(conversationComplete /\ showExtractedData)

\* C19 witness: the research call made from the Extracted screen has
\* completed, which raised the one flag and lowered the other.
C19_Witness ==
  /\ lastEvent = "handleWebResearch resolved"
  /\ conversationComplete
  /\ ~showExtractedData
  /\ ~isLoading

\* C20: on the Extracted and the Complete screen the list of follow-up
\* questions is empty; only the Collecting screen has questions pending.
C20_QuestionsOnlyWhileCollecting ==
  Screen \in {"Extracted", "Complete"} => Len(followUpQuestions) = 0

\* C20 witness: the answers to a round of questions were met with status
\* "extracted", and the Extracted screen shows with no question left.
C20_Witness ==
  /\ lastEvent = "handleFollowUpSubmit resolved"
  /\ Screen = "Extracted"
  /\ followUpQuestions = <<>>
  /\ DOMAIN questionAnswers # {}

\* C21: research results are non-empty only on the Complete screen entered by
\* a successful research call, and they are the results of that call's reply;
\* after a reset, and on a Complete screen entered by a reply with
\* is_complete, they are empty.
C21_ResearchResultsOnlyFromResearch ==
  /\ DOMAIN webResearchResults # {} =>
       /\ Screen = "Complete"
       /\ lastEvent = "handleWebResearch resolved"
       /\ LastReply.has_web_research_results
       /\ webResearchResults = LastReply.web_research_results
  /\ lastEvent = "resetConversation" => DOMAIN webResearchResults = {}
  /\ (Screen = "Complete" /\ lastEvent \in AnalyzeResolvedEvents) =>
       /\ DOMAIN webResearchResults = {}
       /\ Render.research = <<>>

\* C21 witness: the Complete screen was entered directly by a reply with
\* is_complete, and it holds and shows no research results.
C21_Witness ==
  /\ Screen = "Complete"
  /\ lastEvent = "handleSubmit resolved"
  /\ LastReply.is_complete
  /\ DOMAIN webResearchResults = {}
  /\ Render.research = <<>>

====
